---- MODULE Spec2Model ----
(***************************************************************************)
(* binhis: histogram statistics and binarisation of an RGBA8 image         *)
(* (src/src/image.rs) and the yew component that drives it                 *)
(* (src/src/image_component.rs).                                           *)
(*                                                                         *)
(* f32 values are modelled as exact rationals n/d extended with NaN and    *)
(* the two infinities, and where log2 is taken as fixed-point numbers;     *)
(* `as u8` / `as u32` casts truncate toward zero, saturate and send NaN    *)
(* to 0, as Rust's casts do.  An integer overflow panics or wraps, as the  *)
(* build has it (overflow_checks).                                         *)
(***************************************************************************)
EXTENDS Integers, Sequences, FiniteSets

VARIABLES
    image,            \* ImageComponent.image
    image_to_display, \* ImageComponent.image_to_display
    treshold_low,     \* ImageComponent.treshold_low
    treshold_high,    \* ImageComponent.treshold_high
    black_percent,    \* ImageComponent.black_percent
    props,            \* what the codec decodes ctx.props().image_data to
    last_msg,         \* the message update handled last ("Changed" for changed)
    self,             \* receiver of a direct call on Image
    call,             \* the method called on self, with its arguments
    ret,              \* the value the call returned
    status,           \* "running", or "panicked" once a handler panicked
    canvas,           \* the bytes last drawn by put_image_data
    overflow_checks,  \* whether the build checks integer overflow
    pc,               \* position inside mean_iterative_selection
    mean,             \* its local `mean`
    prev_mean,        \* its local `prev_mean`
    locals            \* its other locals: histogram, the index i of the for
                      \* loop under way, count, and low_mean, low_count,
                      \* high_mean, high_count of a pass

vars == <<image, image_to_display, treshold_low, treshold_high, black_percent,
          props, last_msg, status, canvas, overflow_checks,
          self, call, ret, pc, mean, prev_mean, locals>>

compVars == <<image, image_to_display, treshold_low, treshold_high,
              black_percent, props, last_msg, status, canvas>>
callVars == <<self, call, ret>>
loopVars == <<pc, mean, prev_mean, locals>>

(***************************************************************************)
(* Bounds of the model.                                                    *)
(***************************************************************************)
MaxPixels == 4

\* pixels of the images handed to the component
MaxPropsPixels == 1

MaxIters == 8

\* binary digits the objective values of the selectors keep after the point
FracBits == 10

(***************************************************************************)
(* Program constants.                                                      *)
(***************************************************************************)
Red == 0
Green == 1
Blue == 2
Alpha == 3
U8Max == 255
Levels == 256

Components == <<Red, Green, Blue>>

(***************************************************************************)
(* `for i in lo..=hi { s = Body(i, s) }`: the iterations run in order,     *)
(* each on the state the one before it left.  The range is halved so that  *)
(* the evaluation never nests more than log2(hi - lo) deep.                *)
(***************************************************************************)
RECURSIVE For(_, _, _, _)
For(Body(_, _), lo, hi, s) ==
    IF lo > hi THEN s
    ELSE IF lo = hi THEN Body(lo, s)
    ELSE LET mid == (lo + hi) \div 2
             s1 == For(Body, lo, mid, s)
         IN  IF Len(<<s1>>) = 1 THEN For(Body, mid + 1, hi, s1) ELSE s1

RECURSIVE Gcd(_, _)
Gcd(a, b) == IF b = 0 THEN a ELSE Gcd(b, a % b)

Abs(x) == IF x < 0 THEN -x ELSE x

(***************************************************************************)
(* f32 values: a rational n/d (d > 0, lowest terms), NaN, or an infinity.  *)
(***************************************************************************)
NaN == [k |-> "nan", n |-> 0, d |-> 1]
PosInf == [k |-> "inf", n |-> 1, d |-> 1]
NegInf == [k |-> "inf", n |-> -1, d |-> 1]

Fin(n, d) ==
    LET g == Gcd(Abs(n), d)
    IN  [k |-> "fin", n |-> n \div g, d |-> d \div g]

IsNaN(x) == x.k = "nan"
IsFin(x) == x.k = "fin"

\* a as f32 / b as f32 for integers a, b >= 0
FDivInt(a, b) ==
    IF b # 0 THEN Fin(a, b)
    ELSE IF a = 0 THEN NaN
    ELSE IF a > 0 THEN PosInf ELSE NegInf

FAdd(x, y) ==
    IF IsNaN(x) \/ IsNaN(y) THEN NaN
    ELSE IF IsFin(x) /\ IsFin(y) THEN Fin(x.n * y.d + y.n * x.d, x.d * y.d)
    ELSE IF IsFin(x) THEN y
    ELSE IF IsFin(y) THEN x
    ELSE IF x.n = y.n THEN x ELSE NaN

\* x / 2.0
FHalf(x) == IF IsFin(x) THEN Fin(x.n, 2 * x.d) ELSE x

\* x < y, false when either is NaN
FLt(x, y) ==
    IF IsNaN(x) \/ IsNaN(y) THEN FALSE
    ELSE IF IsFin(x) /\ IsFin(y) THEN x.n * y.d < y.n * x.d
    ELSE IF IsFin(x) THEN y.n > 0
    ELSE IF IsFin(y) THEN x.n < 0
    ELSE x.n < y.n

\* (x - y).abs() > n/d, false when the difference is NaN
FAbsDiffGt(x, y, n, d) ==
    IF IsNaN(x) \/ IsNaN(y) THEN FALSE
    ELSE IF IsFin(x) /\ IsFin(y)
         THEN Abs(x.n * y.d - y.n * x.d) * d > n * x.d * y.d
    ELSE IF IsFin(x) \/ IsFin(y) THEN TRUE
    ELSE x.n # y.n

\* `x as u8`: truncates toward zero, saturates, NaN gives 0
FAsU8(x) ==
    IF IsNaN(x) THEN 0
    ELSE IF ~IsFin(x) THEN (IF x.n > 0 THEN U8Max ELSE 0)
    ELSE IF x.n <= 0 THEN 0
    ELSE IF x.n \div x.d > U8Max THEN U8Max ELSE x.n \div x.d

(***************************************************************************)
(* The pixels images are built from: the two pixels of the spec's          *)
(* scenarios, a coloured half-transparent one and a transparent white one. *)
(* Their gray levels are 10, 25, 200 and 255, in f32 as in the exact       *)
(* arithmetic of Grayscale.                                                *)
(***************************************************************************)
PixelList ==
    << <<10, 10, 10, 255>>, <<0, 10, 255, 128>>, <<200, 200, 200, 255>>,
       <<255, 255, 255, 0>> >>

\* struct Image { width, height, data }
MkImage(w, h, data) == [width |-> w, height |-> h, data |-> data]

\* to_rgba8().into_vec(): the pixels' bytes in row order
RECURSIVE Flatten(_)
Flatten(pixels) ==
    IF pixels = <<>> THEN <<>> ELSE Head(pixels) \o Flatten(Tail(pixels))

\* pixel rows of n pixels, listed once per multiset of pixels
PixelRows(n) ==
    { [j \in 1..n |-> PixelList[ix[j]]] :
        ix \in { f \in [1..n -> 1..Len(PixelList)] :
                    \A j \in 1..(n - 1) : f[j] <= f[j + 1] } }

\* the decoded images: a row of up to MaxPixels pixels, or no pixel at all
Images ==
    { MkImage(0, 0, <<>>) } \cup
    UNION { { MkImage(Len(ps), 1, Flatten(ps)) : ps \in PixelRows(n) } :
              n \in 0..MaxPixels }

(***************************************************************************)
(* Image                                                                   *)
(***************************************************************************)
\* self.data.chunks(4): the number of chunks, and byte c of chunk i
NumChunks(data) == (Len(data) + 3) \div 4
Chunk(data, i, c) == data[4 * i + c + 1]

ZeroHist == [v \in 0..(Levels - 1) |-> 0]

\* get_histogram, had it counted all four bytes of a chunk
get_histogram_with_alpha(img) ==
    LET Count(i, h) ==
            [h EXCEPT ![Red][Chunk(img.data, i, Red)] = @ + 1,
                      ![Green][Chunk(img.data, i, Green)] = @ + 1,
                      ![Blue][Chunk(img.data, i, Blue)] = @ + 1,
                      ![Blue][Chunk(img.data, i, Alpha)] = @ + 1]
    IN  For(Count, 0, NumChunks(img.data) - 1,
            [c \in {Red, Green, Blue} |-> ZeroHist])

get_histogram(img) ==
    LET Count(i, h) ==
            [h EXCEPT ![Red][Chunk(img.data, i, Red)] = @ + 1,
                      ![Green][Chunk(img.data, i, Green)] = @ + 1,
                      ![Blue][Chunk(img.data, i, Blue)] = @ + 1]
    IN  For(Count, 0, NumChunks(img.data) - 1,
            [c \in {Red, Green, Blue} |-> ZeroHist])

\* (r * 0.2126 + g * 0.7152 + b * 0.0722) as u8
Grayscale(r, g, b) == (2126 * r + 7152 * g + 722 * b) \div 10000

get_grayscale_histogram(img) ==
    LET Count(i, h) ==
            [h EXCEPT ![Grayscale(Chunk(img.data, i, Red),
                                  Chunk(img.data, i, Green),
                                  Chunk(img.data, i, Blue))] = @ + 1]
    IN  For(Count, 0, NumChunks(img.data) - 1, ZeroHist)

\* data[(i * 4) + component] = val for the three colour components
SetRGB(data, i, rgb) ==
    [data EXCEPT ![4 * i + Red + 1] = rgb[1],
                 ![4 * i + Green + 1] = rgb[2],
                 ![4 * i + Blue + 1] = rgb[3]]

\* threshold, had it asked every component to lie in the range
threshold_every_component(img, low, high) ==
    LET Pixel(i, data) ==
            LET Test(c, val) ==
                    IF Chunk(img.data, i, Components[c]) >= low
                       /\ Chunk(img.data, i, Components[c]) <= high
                    THEN val ELSE 0
                val == For(Test, 1, 3, U8Max)
            IN  SetRGB(data, i, <<val, val, val>>)
    IN  MkImage(img.width, img.height,
                For(Pixel, 0, NumChunks(img.data) - 1, img.data))

threshold(img, low, high) ==
    LET Pixel(i, data) ==
            LET Test(c, val) ==
                    IF Chunk(img.data, i, Components[c]) >= low
                       /\ Chunk(img.data, i, Components[c]) <= high
                    THEN U8Max ELSE val
                val == For(Test, 1, 3, 0)
            IN  SetRGB(data, i, <<val, val, val>>)
    IN  MkImage(img.width, img.height,
                For(Pixel, 0, NumChunks(img.data) - 1, img.data))

(***************************************************************************)
(* What a call on Image comes to: it returns `value`, or it panics.        *)
(***************************************************************************)
Returned(v) == [panicked |-> FALSE, value |-> v]
Panicked == [panicked |-> TRUE, value |-> <<>>]

\* a - b on u8: an overflow panics when the build checks overflow, and wraps
\* otherwise
U8Sub(a, b) == [overflow |-> a < b, wrapped |-> (a - b + U8Max + 1) % (U8Max + 1)]

\* (up as f32 / down as f32 * 255.0).round() as u8, for up, down >= 0
RoundScaleU8(up, down) ==
    IF down = 0 THEN (IF up = 0 THEN 0 ELSE U8Max)
    ELSE IF (2 * U8Max * up + down) \div (2 * down) > U8Max THEN U8Max
    ELSE (2 * U8Max * up + down) \div (2 * down)

\* (x as f32 / y as f32 * 255.0) as u8, for x, y >= 0
TruncScaleU8(x, y) ==
    IF y = 0 THEN (IF x = 0 THEN 0 ELSE U8Max)
    ELSE IF (U8Max * x) \div y > U8Max THEN U8Max
    ELSE (U8Max * x) \div y

\* the loop of get_equalized_image, had `min` skipped the levels below the
\* first pixel (the smallest non-zero cdf of the textbook formula)
EqualizeCdf_min_nonzero(hist) ==
    LET Step(i, s) ==
            LET sum == s.sum + hist[i]
            IN  [sum |-> sum,
                 cdf |-> [s.cdf EXCEPT ![i] = sum],
                 min |-> IF sum > 0 /\ (s.min.top \/ sum < s.min.v)
                         THEN [top |-> FALSE, v |-> sum] ELSE s.min]
    IN  For(Step, 0, Levels - 1,
            [sum |-> 0, cdf |-> ZeroHist, min |-> [top |-> TRUE, v |-> 0]])

\* the loop of get_equalized_image over one component's histogram: `cdf` and
\* the running minimum `min`, which starts at u32::MAX (`top`: above every
\* count)
EqualizeCdf(hist) ==
    LET Step(i, s) ==
            LET sum == s.sum + hist[i]
            IN  [sum |-> sum,
                 cdf |-> [s.cdf EXCEPT ![i] = sum],
                 min |-> IF s.min.top \/ sum < s.min.v
                         THEN [top |-> FALSE, v |-> sum] ELSE s.min]
    IN  For(Step, 0, Levels - 1,
            [sum |-> 0, cdf |-> ZeroHist, min |-> [top |-> TRUE, v |-> 0]])

\* one output byte of get_equalized_image; `cdf - min` is a u32 subtraction
\* whose wrapped value, cast to f32, is far above 255
EqualizeByte(cdf, min, pixels, old, checks) ==
    IF min.top \/ cdf[old] < min.v
    THEN [overflow |-> checks, val |-> U8Max]
    ELSE IF pixels < min.v
    THEN [overflow |-> checks, val |-> 0]
    ELSE [overflow |-> FALSE, val |-> RoundScaleU8(cdf[old] - min.v, pixels - min.v)]

get_equalized_image(img, checks) ==
    LET histogram == get_histogram(img)
        eq == <<EqualizeCdf(histogram[Red]), EqualizeCdf(histogram[Green]),
                EqualizeCdf(histogram[Blue])>>
        pixels == img.width * img.height
        Byte3(i, c) ==
            EqualizeByte(eq[c + 1].cdf, eq[c + 1].min, pixels, Chunk(img.data, i, c),
                         checks)
        Pixel(i, s) ==
            [overflow |-> s.overflow \/ \E c \in {Red, Green, Blue} : Byte3(i, c).overflow,
             data |-> SetRGB(s.data, i,
                             <<Byte3(i, Red).val, Byte3(i, Green).val, Byte3(i, Blue).val>>)]
        out == For(Pixel, 0, NumChunks(img.data) - 1,
                   [overflow |-> FALSE, data |-> img.data])
    IN  IF out.overflow THEN Panicked
        ELSE Returned(MkImage(img.width, img.height, out.data))

\* the loop of get_stretched_image over one component's histogram
StretchMinMax(hist) ==
    LET Step(i, s) ==
            IF hist[i] > 0
            THEN [min |-> IF i < s.min THEN i ELSE s.min,
                  max |-> IF i > s.max THEN i ELSE s.max]
            ELSE s
    IN  For(Step, 0, Levels - 1, [min |-> U8Max, max |-> 0])

\* the byte of get_stretched_image, had the quotient been an integer
\* division, which panics on a zero divisor
StretchByte_integer_division(min, max, old, checks) ==
    [overflow |-> max = min
                  \/ (checks /\ (U8Sub(old, min).overflow \/ U8Sub(max, min).overflow)),
     val |-> TruncScaleU8(U8Sub(old, min).wrapped, U8Sub(max, min).wrapped)]

\* ((old - min) as f32 / (max - min) as f32 * 255.0) as u8
StretchByte(min, max, old, checks) ==
    [overflow |-> checks /\ (U8Sub(old, min).overflow \/ U8Sub(max, min).overflow),
     val |-> TruncScaleU8(U8Sub(old, min).wrapped, U8Sub(max, min).wrapped)]

get_stretched_image(img, checks) ==
    LET histogram == get_histogram(img)
        mm == <<StretchMinMax(histogram[Red]), StretchMinMax(histogram[Green]),
                StretchMinMax(histogram[Blue])>>
        Byte3(i, c) ==
            StretchByte(mm[c + 1].min, mm[c + 1].max, Chunk(img.data, i, c), checks)
        Pixel(i, s) ==
            [overflow |-> s.overflow \/ \E c \in {Red, Green, Blue} : Byte3(i, c).overflow,
             data |-> SetRGB(s.data, i,
                             <<Byte3(i, Red).val, Byte3(i, Green).val, Byte3(i, Blue).val>>)]
        out == For(Pixel, 0, NumChunks(img.data) - 1,
                   [overflow |-> FALSE, data |-> img.data])
    IN  IF out.overflow THEN Panicked
        ELSE Returned(MkImage(img.width, img.height, out.data))

\* ((width * height) as f32 * percent).floor() as u32
PercentPixels(img, percent) ==
    IF ~IsFin(percent) \/ percent.n <= 0 THEN 0
    ELSE (img.width * img.height * percent.n) \div percent.d

\* the cutoff of percent_black_selection, had the loop stopped on
\* sum > pixels
PercentBlackCutoff_strict(histogram, pixels) ==
    LET Step(i, s) ==
            IF s.done THEN s
            ELSE IF s.sum + histogram[i] > pixels
                 THEN [sum |-> s.sum + histogram[i], threshold |-> i, done |-> TRUE]
                 ELSE [s EXCEPT !.sum = s.sum + histogram[i]]
    IN  For(Step, 0, Levels - 1, [sum |-> 0, threshold |-> 0, done |-> FALSE]).threshold

\* the cutoff percent_black_selection passes to threshold
PercentBlackCutoff(histogram, pixels) ==
    LET Step(i, s) ==
            IF s.done THEN s
            ELSE IF s.sum + histogram[i] >= pixels
                 THEN [sum |-> s.sum + histogram[i], threshold |-> i, done |-> TRUE]
                 ELSE [s EXCEPT !.sum = s.sum + histogram[i]]
    IN  For(Step, 0, Levels - 1, [sum |-> 0, threshold |-> 0, done |-> FALSE]).threshold

percent_black_selection(img, percent) ==
    threshold(img,
              PercentBlackCutoff(get_grayscale_histogram(img), PercentPixels(img, percent)),
              U8Max)

(***************************************************************************)
(* mean_iterative_selection                                                *)
(***************************************************************************)
\* the body of the first for loop, on s = [mean, count]
MeanSumBody(hist, j, s) ==
    [mean |-> s.mean + j * hist[j], count |-> s.count + hist[j]]

\* the first loop and `mean /= count as f32`
MeanOfHistogram(hist) ==
    LET Step(j, s) == MeanSumBody(hist, j, s)
        t == For(Step, 0, Levels - 1, [mean |-> 0, count |-> 0])
    IN  FDivInt(t.mean, t.count)

\* the loop condition, had it been mean != prev_mean, which is true of NaN
MeanLoopCondition_not_equal(m, prev) == IsNaN(m) \/ IsNaN(prev) \/ m # prev

\* the loop condition (mean - prev_mean).abs() > 0.01
MeanLoopCondition(m, prev) == FAbsDiffGt(m, prev, 1, 100)

\* low_mean, low_count, high_mean and high_count as a pass starts
NoSplit == [low_mean |-> 0, low_count |-> 0, high_mean |-> 0, high_count |-> 0]

\* the body of the for loop of a pass, on s = [low_mean, low_count, high_mean,
\* high_count]
MeanSplitBody(hist, m, j, s) ==
    IF FLt(Fin(j, 1), m)
    THEN [s EXCEPT !.low_mean = @ + j * hist[j], !.low_count = @ + hist[j]]
    ELSE [s EXCEPT !.high_mean = @ + j * hist[j], !.high_count = @ + hist[j]]

\* the end of a pass: the two divisions and (low_mean + high_mean) / 2.0
MeanAverage(s) ==
    FHalf(FAdd(FDivInt(s.low_mean, s.low_count), FDivInt(s.high_mean, s.high_count)))

\* one pass of the body of the while loop: the new value of `mean`
MeanLoopBody(hist, m) ==
    LET Step(j, s) == MeanSplitBody(hist, m, j, s)
    IN  MeanAverage(For(Step, 0, Levels - 1, NoSplit))

\* the while loop, given up after MaxIters passes
RECURSIVE MeanLoop(_, _, _, _)
MeanLoop(hist, m, prev, fuel) ==
    IF ~MeanLoopCondition(m, prev) THEN [done |-> TRUE, mean |-> m]
    ELSE IF fuel = 0 THEN [done |-> FALSE, mean |-> m]
    ELSE MeanLoop(hist, MeanLoopBody(hist, m), m, fuel - 1)

MeanIterativeRun(img) ==
    LET hist == get_grayscale_histogram(img)
    IN  MeanLoop(hist, MeanOfHistogram(hist), Fin(0, 1), MaxIters)

mean_iterative_selection(img) ==
    threshold(img, FAsU8(MeanIterativeRun(img).mean), U8Max)

(***************************************************************************)
(* The objectives of entropy_selection, minimum_error_selection and        *)
(* fuzzy_minimum_error_selection go through log2, so they are kept in      *)
(* fixed point: a finite value is v / LogScale.  NaN and the infinities    *)
(* follow IEEE 754; a zero divisor is +0.0 (no quotient of the three       *)
(* selectors divides a non-zero value by zero).                            *)
(***************************************************************************)
LogScale == 2 ^ FracBits
MantBits == FracBits + 3

FxNaN == [k |-> "nan", v |-> 0]
FxInf == [k |-> "inf", v |-> 1]
FxNegInf == [k |-> "inf", v |-> -1]
Fx(v) == [k |-> "fin", v |-> v]
FxInt(i) == Fx(i * LogScale)
FxRatio(n, d) == IF d = 0 THEN (IF n = 0 THEN FxNaN ELSE FxInf) ELSE Fx((n * LogScale) \div d)

Sign(v) == IF v > 0 THEN 1 ELSE IF v < 0 THEN -1 ELSE 0

FxNeg(x) == IF x.k = "nan" THEN x ELSE [x EXCEPT !.v = -x.v]

FxAdd(x, y) ==
    IF x.k = "nan" \/ y.k = "nan" THEN FxNaN
    ELSE IF x.k = "fin" /\ y.k = "fin" THEN Fx(x.v + y.v)
    ELSE IF x.k = "fin" THEN y
    ELSE IF y.k = "fin" THEN x
    ELSE IF x.v = y.v THEN x ELSE FxNaN

FxSub(x, y) == FxAdd(x, FxNeg(y))

FxMul(x, y) ==
    IF x.k = "nan" \/ y.k = "nan" THEN FxNaN
    ELSE IF x.k = "fin" /\ y.k = "fin" THEN Fx((x.v * y.v) \div LogScale)
    ELSE IF x.v = 0 \/ y.v = 0 THEN FxNaN
    ELSE [k |-> "inf", v |-> Sign(x.v) * Sign(y.v)]

FxDiv(x, y) ==
    IF x.k = "nan" \/ y.k = "nan" THEN FxNaN
    ELSE IF x.k = "inf" /\ y.k = "inf" THEN FxNaN
    ELSE IF x.k = "inf" THEN [k |-> "inf", v |-> IF y.v < 0 THEN -x.v ELSE x.v]
    ELSE IF y.k = "inf" THEN Fx(0)
    ELSE IF y.v = 0 THEN (IF x.v = 0 THEN FxNaN ELSE [k |-> "inf", v |-> Sign(x.v)])
    ELSE Fx((x.v * LogScale) \div y.v)

\* x < y: false when either is NaN
FxLt(x, y) ==
    IF x.k = "nan" \/ y.k = "nan" THEN FALSE
    ELSE IF x.k = "fin" /\ y.k = "fin" THEN x.v < y.v
    ELSE IF x.k = "fin" THEN y.v > 0
    ELSE IF y.k = "fin" THEN x.v < 0
    ELSE x.v < y.v

\* x == y on f32: false when either is NaN
FxEq(x, y) == x.k # "nan" /\ y.k # "nan" /\ x = y

\* std::f32::MAX and std::f32::MIN: finite, above and below every objective
FxMax == FxInf
FxMin == FxNegInf

\* n / d = m * 2^e with 1 <= m < 2
RECURSIVE Log2Norm(_, _, _)
Log2Norm(n, d, e) ==
    IF n >= 2 * d THEN Log2Norm(n, 2 * d, e + 1)
    ELSE IF n < d THEN Log2Norm(2 * n, d, e - 1)
    ELSE [n |-> n, d |-> d, e |-> e]

RECURSIVE Log2Shrink(_, _)
Log2Shrink(n, d) ==
    IF n >= 2 ^ (30 - MantBits) THEN Log2Shrink(n \div 2, d \div 2)
    ELSE (n * 2 ^ MantBits) \div d

\* the first `bits` binary digits of log2(y / 2^MantBits), by squaring
RECURSIVE Log2Frac(_, _, _)
Log2Frac(y, bits, acc) ==
    IF bits = 0 THEN acc
    ELSE LET y2 == (y * y) \div 2 ^ MantBits
         IN  IF y2 >= 2 ^ (MantBits + 1)
             THEN Log2Frac(y2 \div 2, bits - 1, 2 * acc + 1)
             ELSE Log2Frac(y2, bits - 1, 2 * acc)

\* (n as f32 / d as f32).log2() for n >= 0 and d > 0
Log2(n, d) ==
    IF n = 0 THEN FxNegInf
    ELSE LET m == Log2Norm(n, d, 0)
         IN  Fx(m.e * LogScale + Log2Frac(Log2Shrink(m.n, m.d), FracBits, 0))

\* x * (c as f32) for a count c >= 0
FxScale(x, c) ==
    IF x.k = "nan" THEN FxNaN
    ELSE IF x.k = "fin" THEN Fx(x.v * c)
    ELSE IF c = 0 THEN FxNaN ELSE x

\* (c as f32 / n as f32).log2(): NaN when 0/0
LogRatio(c, n) == IF n = 0 THEN FxNaN ELSE Log2(c, n)

\* (c as f32 / n as f32).log2() for every count c of 0..n, at index c + 1
LogTable(n) ==
    LET Add(c, t) == Append(t, LogRatio(c, n))
    IN  For(Add, 0, n, <<>>)

RECURSIVE MaxOf(_)
MaxOf(S) ==
    LET x == CHOOSE y \in S : TRUE
    IN  IF S = {x} THEN x
        ELSE LET m == MaxOf(S \ {x}) IN IF x > m THEN x ELSE m

RECURSIVE SumOver(_, _)
SumOver(Term(_), S) ==
    IF S = {} THEN 0
    ELSE LET x == CHOOSE y \in S : TRUE IN Term(x) + SumOver(Term, S \ {x})

RECURSIVE FxSumOver(_, _)
FxSumOver(Term(_), S) ==
    IF S = {} THEN Fx(0)
    ELSE LET x == CHOOSE y \in S : TRUE IN FxAdd(Term(x), FxSumOver(Term, S \ {x}))

\* the gray levels some pixel has.  A loop that adds a multiple of
\* histogram[j] for every j of a range adds 0 at every other level, and is
\* evaluated over these levels alone.
LevelsOf(histogram) == { j \in 0..(Levels - 1) : histogram[j] > 0 }
LevelsIn(levels, lo, hi) == { j \in levels : j >= lo /\ j <= hi }

(***************************************************************************)
(* entropy_selection                                                       *)
(***************************************************************************)
\* the loop that sums ht_total
EntropyTotal(histogram, n) ==
    LET Step(i, ht_total) ==
            IF histogram[i] > 0
            THEN FxSub(ht_total, FxMul(FxRatio(histogram[i], n), LogRatio(histogram[i], n)))
            ELSE ht_total
    IN  For(Step, 0, Levels - 1, Fx(0))

\* max_high of candidate i, had it started from histogram[i] at every level
EntropyMaxHigh_from_own_level(histogram, levels, i) ==
    MaxOf({ histogram[i] }
          \cup { histogram[j] : j \in LevelsIn(levels, i + 2, Levels - 1) })

\* max_high of candidate i, as a count: histogram[i + 1] (histogram[i] for
\* the last level), then the loop over j in i + 2..256
EntropyMaxHigh(histogram, levels, i) ==
    MaxOf({ IF i < Levels - 1 THEN histogram[i + 1] ELSE histogram[i] }
          \cup { histogram[j] : j \in LevelsIn(levels, i + 2, Levels - 1) })

\* f of a candidate, from pt, max_low and max_high (counts out of n), ht and
\* ht_total; log2[c + 1] is (c as f32 / n as f32).log2()
EntropyObjective(log2, n, pt, max_low, max_high, ht, ht_total) ==
    FxAdd(FxDiv(FxMul(ht, log2[pt + 1]),
                FxMul(ht_total, log2[max_low + 1])),
          FxDiv(FxMul(FxSub(FxInt(1), FxDiv(ht, ht_total)), log2[n - pt + 1]),
                log2[max_high + 1]))

\* the candidate loop: its state after the last candidate; maxes lists the
\* values max_low and max_high had at each candidate, in order (as counts)
EntropyLoop(histogram, n) ==
    LET ht_total == EntropyTotal(histogram, n)
        levels == LevelsOf(histogram)
        log2 == LogTable(n)
        Step(i, s) ==
            LET pt == s.pt + histogram[i]
                max_low == IF histogram[i] > s.max_low THEN histogram[i] ELSE s.max_low
                max_high == EntropyMaxHigh(histogram, levels, i)
                ht == IF histogram[i] > 0
                      THEN FxSub(s.ht, FxMul(FxRatio(histogram[i], n),
                                             LogRatio(histogram[i], n)))
                      ELSE s.ht
                f == EntropyObjective(log2, n, pt, max_low, max_high, ht, ht_total)
            IN  [pt |-> pt, max_low |-> max_low, max_high |-> max_high, ht |-> ht,
                 max_sum |-> IF FxLt(s.max_sum, f) THEN f ELSE s.max_sum,
                 threshold |-> IF FxLt(s.max_sum, f) THEN i ELSE s.threshold,
                 maxes |-> Append(s.maxes, [max_low |-> max_low, max_high |-> max_high])]
    IN  For(Step, 0, Levels - 1,
            [pt |-> 0, max_low |-> histogram[0], max_high |-> 0, ht |-> Fx(0),
             max_sum |-> FxMin, threshold |-> 0, maxes |-> <<>>])

entropy_selection(img) ==
    threshold(img,
              EntropyLoop(get_grayscale_histogram(img), img.width * img.height).threshold,
              U8Max)

(***************************************************************************)
(* minimum_error_selection                                                 *)
(***************************************************************************)
\* s1 or s2: the variance of the class of levels lo..hi, whose probability is
\* p / n and whose mean is pi / p; 0 for a class of probability 0.  As a
\* fraction: sum (j - pi/p)^2 * histogram[j] / p = sum (j*p - pi)^2 *
\* histogram[j] / p^3.
ClassVariance(histogram, levels, lo, hi, p, pi) ==
    IF p > 0
    THEN LET Term(j) == (j * p - pi) * (j * p - pi) * histogram[j]
         IN  [n |-> SumOver(Term, LevelsIn(levels, lo, hi)), d |-> p * p * p]
    ELSE [n |-> 0, d |-> 1]

\* j = 1.0 + 2.0 * ((p1 * s1.log2() - p1.log2()) + p2 * (s2.log2() - p2.log2()))
MinimumErrorObjective(log2, n, p1, p2, s1, s2) ==
    FxAdd(FxInt(1),
          FxScale(FxAdd(FxSub(FxMul(FxRatio(p1, n), Log2(s1.n, s1.d)),
                              log2[p1 + 1]),
                        FxMul(FxRatio(p2, n),
                              FxSub(Log2(s2.n, s2.d), log2[p2 + 1]))),
                  2))

\* the `continue` of the candidate loop: j == NAN || j == -INFINITY
MinimumErrorSkips(j) == FxEq(j, FxNaN) \/ FxEq(j, FxNegInf)

\* the candidate loop; p1, p2, pi1 and pi2 are kept as counts (times n), and
\* js lists the value `j` had at each candidate, in order
MinimumErrorLoop(histogram, n) ==
    LET Total(i, s) == [p2 |-> s.p2 + histogram[i], pi2 |-> s.pi2 + i * histogram[i]]
        total == For(Total, 0, Levels - 1, [p2 |-> 0, pi2 |-> 0])
        levels == LevelsOf(histogram)
        log2 == LogTable(n)
        Step(i, s) ==
            LET p1 == s.p1 + histogram[i]
                p2 == s.p2 - histogram[i]
                pi1 == s.pi1 + i * histogram[i]
                pi2 == s.pi2 - i * histogram[i]
                s1 == ClassVariance(histogram, levels, 0, i, p1, pi1)
                s2 == ClassVariance(histogram, levels, i + 1, Levels - 1, p2, pi2)
                j == MinimumErrorObjective(log2, n, p1, p2, s1, s2)
                take == ~MinimumErrorSkips(j) /\ FxLt(j, s.min_value)
            IN  [p1 |-> p1, p2 |-> p2, pi1 |-> pi1, pi2 |-> pi2,
                 min_value |-> IF take THEN j ELSE s.min_value,
                 threshold |-> IF take THEN i ELSE s.threshold,
                 js |-> Append(s.js, j)]
    IN  For(Step, 0, Levels - 1,
            [p1 |-> 0, p2 |-> total.p2, pi1 |-> 0, pi2 |-> total.pi2,
             min_value |-> FxMax, threshold |-> 0, js |-> <<>>])

minimum_error_selection(img) ==
    threshold(img,
              MinimumErrorLoop(get_grayscale_histogram(img), img.width * img.height).threshold,
              U8Max)

(***************************************************************************)
(* fuzzy_minimum_error_selection                                           *)
(***************************************************************************)
\* shannon(x) for x = xn / xd, 0 <= xn <= xd; x is NaN when xd = 0
shannon(xn, xd) ==
    IF xd = 0 THEN FxNaN
    ELSE IF xn = 0 THEN Fx(0)
    ELSE FxSub(FxMul(FxNeg(FxRatio(xn, xd)), Log2(xn, xd)),
               FxMul(FxSub(FxInt(1), FxRatio(xn, xd)), Log2(xd - xn, xd)))

\* the first loop: the largest and the smallest level with a pixel
FuzzyMinMax(histogram) ==
    LET Step(i, s) ==
            IF histogram[i] > 0
            THEN [max |-> IF i > s.max THEN i ELSE s.max,
                  min |-> IF i < s.min THEN i ELSE s.min]
            ELSE s
    IN  For(Step, 0, Levels - 1, [max |-> 0, min |-> U8Max])

\* one of the two loops that add shannon(c / (c + |i - mu|)) * histogram[i]
\* to e, over the levels lo..hi, where mu = sum / count is the mean of the
\* class (NaN for an empty class).  c / (c + |i - mu|) is
\* c*count / (c*count + |i*count - sum|).  At a level without a pixel the
\* product is 0, or NaN when shannon is NaN: when mu is NaN, and at i = mu.
FuzzyClassError(histogram, levels, lo, hi, c) ==
    LET in == LevelsIn(levels, lo, hi)
        count == SumOver(LAMBDA i : histogram[i], in)
        sum == SumOver(LAMBDA i : i * histogram[i], in)
        Term(i) ==
            FxScale(shannon(c * count, c * count + Abs(i * count - sum)),
                    histogram[i])
    IN  IF count = 0 THEN FxNaN
        ELSE IF sum % count = 0 /\ histogram[sum \div count] = 0 THEN FxNaN
        ELSE FxSumOver(Term, in)

\* e of the candidate t
FuzzyError(histogram, levels, n, c, t) ==
    FxDiv(FxAdd(FuzzyClassError(histogram, levels, 0, t, c),
                FuzzyClassError(histogram, levels, t + 1, Levels - 1, c)),
          FxInt(n))

\* the candidate loop, for t in 0..255
FuzzyLoop(histogram, n, c) ==
    LET levels == LevelsOf(histogram)
        Step(t, s) ==
            LET e == FuzzyError(histogram, levels, n, c, t)
            IN  IF FxLt(e, s.min_error)
                THEN [min_error |-> e, threshold |-> t]
                ELSE s
    IN  For(Step, 0, Levels - 2, [min_error |-> FxMax, threshold |-> 0])

\* `let c = max - min` is a usize subtraction: with no pixel it is 0 - 255,
\* which panics when the build checks overflow and wraps otherwise.  The
\* wrapped value is never used: every class is empty then.
fuzzy_minimum_error_selection(img, checks) ==
    LET histogram == get_grayscale_histogram(img)
        mm == FuzzyMinMax(histogram)
    IN  IF mm.max < mm.min /\ checks THEN Panicked
        ELSE Returned(threshold(img,
                                FuzzyLoop(histogram, img.width * img.height,
                                          mm.max - mm.min).threshold,
                                U8Max))

(***************************************************************************)
(* Direct calls on an Image: one call per behaviour, on any image, under   *)
(* either build.                                                           *)
(***************************************************************************)
ThresholdArgs == {0, 10, 50, 200, 255}
PercentArgs == { Fin(0, 1), Fin(1, 2), Fin(1, 1) }

NoCall == [fn |-> "none", low |-> 0, high |-> 0, percent |-> Fin(0, 1)]
Call(fn) == [NoCall EXCEPT !.fn = fn]
NoImage == MkImage(0, 0, <<>>)

IdleComponent ==
    /\ image = NoImage
    /\ image_to_display = NoImage
    /\ treshold_low = 0
    /\ treshold_high = 0
    /\ black_percent = Fin(0, 1)
    /\ props = NoImage
    /\ last_msg = "none"
    /\ status = "none"
    /\ canvas = <<>>

NoLocals ==
    [histogram |-> ZeroHist, i |-> 0, count |-> 0,
     low_mean |-> 0, low_count |-> 0, high_mean |-> 0, high_count |-> 0]

IdleLoop ==
    /\ pc = "none"
    /\ mean = Fin(0, 1)
    /\ prev_mean = Fin(0, 1)
    /\ locals = NoLocals

InitImage ==
    /\ self \in Images
    /\ overflow_checks \in BOOLEAN
    /\ call = NoCall
    /\ ret = Returned(<<>>)
    /\ IdleLoop
    /\ IdleComponent

Does(c, r) ==
    /\ call = NoCall
    /\ call' = c
    /\ ret' = r
    /\ UNCHANGED <<self, overflow_checks, compVars, loopVars>>

CallGetHistogram == Does(Call("get_histogram"), Returned(get_histogram(self)))

CallGetGrayscaleHistogram ==
    Does(Call("get_grayscale_histogram"), Returned(get_grayscale_histogram(self)))

CallGetEqualizedImage ==
    Does(Call("get_equalized_image"), get_equalized_image(self, overflow_checks))

CallGetStretchedImage ==
    Does(Call("get_stretched_image"), get_stretched_image(self, overflow_checks))

CallThreshold ==
    \E low \in ThresholdArgs, high \in ThresholdArgs :
        Does([NoCall EXCEPT !.fn = "threshold", !.low = low, !.high = high],
             Returned(threshold(self, low, high)))

CallPercentBlackSelection ==
    \E percent \in PercentArgs :
        Does([NoCall EXCEPT !.fn = "percent_black_selection", !.percent = percent],
             Returned(percent_black_selection(self, percent)))

CallMeanIterativeSelection ==
    /\ MeanIterativeRun(self).done
    /\ Does(Call("mean_iterative_selection"), Returned(mean_iterative_selection(self)))

CallEntropySelection ==
    Does(Call("entropy_selection"), Returned(entropy_selection(self)))

CallMinimumErrorSelection ==
    Does(Call("minimum_error_selection"), Returned(minimum_error_selection(self)))

CallFuzzyMinimumErrorSelection ==
    Does(Call("fuzzy_minimum_error_selection"),
         fuzzy_minimum_error_selection(self, overflow_checks))

NextImage ==
    \/ CallGetHistogram
    \/ CallGetGrayscaleHistogram
    \/ CallGetEqualizedImage
    \/ CallGetStretchedImage
    \/ CallThreshold
    \/ CallPercentBlackSelection
    \/ CallMeanIterativeSelection
    \/ CallEntropySelection
    \/ CallMinimumErrorSelection
    \/ CallFuzzyMinimumErrorSelection

SpecImage == InitImage /\ [][NextImage]_vars

(***************************************************************************)
(* mean_iterative_selection, one iteration of its loops at a time.  The    *)
(* call runs to completion: nothing suspends it.                           *)
(***************************************************************************)
InitMean ==
    /\ self \in Images
    /\ overflow_checks \in BOOLEAN
    /\ call = Call("mean_iterative_selection")
    /\ ret = Returned(<<>>)
    /\ pc = "start"
    /\ mean = Fin(0, 1)
    /\ prev_mean = Fin(0, 1)
    /\ locals = NoLocals
    /\ IdleComponent

\* the pass locals of `locals`
SplitOf(l) ==
    [low_mean |-> l.low_mean, low_count |-> l.low_count,
     high_mean |-> l.high_mean, high_count |-> l.high_count]

\* the histogram and the initial values of mean, prev_mean and count
MeanStart ==
    /\ pc = "start"
    /\ locals' = [NoLocals EXCEPT !.histogram = get_grayscale_histogram(self)]
    /\ mean' = Fin(0, 1)
    /\ prev_mean' = Fin(0, 1)
    /\ pc' = "sum"
    /\ UNCHANGED <<callVars, overflow_checks, compVars>>

\* one iteration of the first for loop (`mean` is a whole number there)
MeanSum ==
    /\ pc = "sum"
    /\ locals.i < Levels
    /\ LET s == MeanSumBody(locals.histogram, locals.i,
                            [mean |-> mean.n, count |-> locals.count])
       IN  /\ mean' = Fin(s.mean, 1)
           /\ locals' = [locals EXCEPT !.count = s.count, !.i = @ + 1]
    /\ UNCHANGED <<pc, prev_mean, callVars, overflow_checks, compVars>>

\* mean /= count as f32
MeanDivide ==
    /\ pc = "sum"
    /\ locals.i = Levels
    /\ mean' = FDivInt(mean.n, locals.count)
    /\ pc' = "while"
    /\ UNCHANGED <<prev_mean, locals, callVars, overflow_checks, compVars>>

\* the while condition holds: a pass starts
MeanEnter ==
    /\ pc = "while"
    /\ MeanLoopCondition(mean, prev_mean)
    /\ locals' = [locals EXCEPT !.i = 0, !.low_mean = 0, !.low_count = 0,
                                !.high_mean = 0, !.high_count = 0]
    /\ pc' = "split"
    /\ UNCHANGED <<mean, prev_mean, callVars, overflow_checks, compVars>>

\* one iteration of the for loop of a pass
MeanSplit ==
    /\ pc = "split"
    /\ locals.i < Levels
    /\ LET s == MeanSplitBody(locals.histogram, mean, locals.i, SplitOf(locals))
       IN  locals' = [locals EXCEPT !.i = @ + 1,
                                    !.low_mean = s.low_mean,
                                    !.low_count = s.low_count,
                                    !.high_mean = s.high_mean,
                                    !.high_count = s.high_count]
    /\ UNCHANGED <<pc, mean, prev_mean, callVars, overflow_checks, compVars>>

\* the end of a pass: prev_mean = mean; mean = (low_mean + high_mean) / 2.0
MeanEndPass ==
    /\ pc = "split"
    /\ locals.i = Levels
    /\ prev_mean' = mean
    /\ mean' = MeanAverage(SplitOf(locals))
    /\ pc' = "while"
    /\ UNCHANGED <<locals, callVars, overflow_checks, compVars>>

\* the while condition is false: the image is thresholded and returned
MeanReturn ==
    /\ pc = "while"
    /\ ~MeanLoopCondition(mean, prev_mean)
    /\ ret' = Returned(threshold(self, FAsU8(mean), U8Max))
    /\ pc' = "done"
    /\ UNCHANGED <<self, call, mean, prev_mean, locals, overflow_checks, compVars>>

NextMean ==
    \/ MeanStart
    \/ MeanSum
    \/ MeanDivide
    \/ MeanEnter
    \/ MeanSplit
    \/ MeanEndPass
    \/ MeanReturn

SpecMean == InitMean /\ [][NextMean]_vars /\ WF_vars(NextMean)

(***************************************************************************)
(* ImageComponent.  A handler runs together with the render it asks for    *)
(* (every update and changed returns true).  A panic ends the component.   *)
(***************************************************************************)
PropsImages == { img \in Images : NumChunks(img.data) <= MaxPropsPixels }

\* input.value_as_number() of the two number inputs: NaN when the field
\* holds no number
NumberInputs == { NaN, Fin(-1, 1), Fin(50, 1), Fin(300, 1) }

\* input.value_as_number() of the range input (min 0, max 1)
RangeInputs == { Fin(0, 1), Fin(1, 2) }

\* Image::new_with_data: the decoded image, as RGBA8
new_with_data(decoded) == MkImage(decoded.width, decoded.height, decoded.data)

\* rendered: ImageData::new_with_u8_clamped_array_and_sh(..).unwrap() panics
\* when the constructor throws, as it does for a zero width or height
RenderedPanics(img) ==
    img.width = 0 \/ img.height = 0 \/ Len(img.data) # 4 * img.width * img.height

\* rendered, after a handler left `shown` in image_to_display
Rendered(shown) ==
    /\ status' = IF RenderedPanics(shown) THEN "panicked" ELSE "running"
    /\ canvas' = IF RenderedPanics(shown) THEN canvas ELSE shown.data

\* create, and the first render
Init ==
    /\ props \in PropsImages
    /\ overflow_checks \in BOOLEAN
    /\ image = new_with_data(props)
    /\ image_to_display = new_with_data(props)
    /\ treshold_low = 0
    /\ treshold_high = U8Max
    /\ black_percent = Fin(0, 1)
    /\ last_msg = "none"
    /\ status = IF RenderedPanics(new_with_data(props)) THEN "panicked" ELSE "running"
    /\ canvas = IF RenderedPanics(new_with_data(props)) THEN <<>> ELSE props.data
    /\ self = NoImage
    /\ call = NoCall
    /\ ret = Returned(<<>>)
    /\ IdleLoop

\* self.image_to_display = <outcome of a call on self.image>; true
Display(msg, outcome) ==
    /\ status = "running"
    /\ last_msg' = msg
    /\ IF outcome.panicked
       THEN /\ status' = "panicked"
            /\ UNCHANGED <<image_to_display, canvas>>
       ELSE /\ image_to_display' = outcome.value
            /\ Rendered(outcome.value)
    /\ UNCHANGED <<image, treshold_low, treshold_high, black_percent, props,
                   overflow_checks, callVars, loopVars>>

StretchHistogram ==
    Display("StretchHistogram", get_stretched_image(image, overflow_checks))

EqualizeHistogram ==
    Display("EqualizeHistogram", get_equalized_image(image, overflow_checks))

\* Msg::ApplyThreshold, had it thresholded the image on display
ApplyThreshold_of_displayed ==
    Display("ApplyThreshold",
            Returned(threshold(image_to_display, treshold_low, treshold_high)))

ApplyThreshold ==
    Display("ApplyThreshold", Returned(threshold(image, treshold_low, treshold_high)))

ApplyMeanIterativeSelectionThreshold ==
    /\ MeanIterativeRun(image).done
    /\ Display("ApplyMeanIterativeSelectionThreshold",
               Returned(mean_iterative_selection(image)))

ApplyPercentBlackSelectionThreshold ==
    Display("ApplyPercentBlackSelectionThreshold",
            Returned(percent_black_selection(image, black_percent)))

ApplyEntropySelectionThreshold ==
    Display("ApplyEntropySelectionThreshold", Returned(entropy_selection(image)))

ApplyMinimumErrorThreshold ==
    Display("ApplyMinimumErrorThreshold", Returned(minimum_error_selection(image)))

ApplyFuzzyMinimumErrorThreshold ==
    Display("ApplyFuzzyMinimumErrorThreshold",
            fuzzy_minimum_error_selection(image, overflow_checks))

TresholdLowChanged ==
    \E value \in NumberInputs :
        /\ status = "running"
        /\ last_msg' = "TresholdLowChanged"
        /\ treshold_low' = FAsU8(value)
        /\ treshold_high' = IF FAsU8(value) > treshold_high
                            THEN FAsU8(value) ELSE treshold_high
        /\ Rendered(image_to_display)
        /\ UNCHANGED <<image, image_to_display, black_percent, props,
                       overflow_checks, callVars, loopVars>>

\* TresholdHighChanged without the comparison with treshold_low
TresholdHighChanged_unclamped ==
    \E value \in NumberInputs :
        /\ status = "running"
        /\ last_msg' = "TresholdHighChanged"
        /\ treshold_high' = FAsU8(value)
        /\ Rendered(image_to_display)
        /\ UNCHANGED <<image, image_to_display, treshold_low, black_percent, props,
                       overflow_checks, callVars, loopVars>>

TresholdHighChanged ==
    \E value \in NumberInputs :
        /\ status = "running"
        /\ last_msg' = "TresholdHighChanged"
        /\ treshold_high' = IF FAsU8(value) < treshold_low
                            THEN treshold_low ELSE FAsU8(value)
        /\ Rendered(image_to_display)
        /\ UNCHANGED <<image, image_to_display, treshold_low, black_percent, props,
                       overflow_checks, callVars, loopVars>>

PercentBlackChanged ==
    \E value \in RangeInputs :
        /\ status = "running"
        /\ last_msg' = "PercentBlackChanged"
        /\ black_percent' = value
        /\ Rendered(image_to_display)
        /\ UNCHANGED <<image, image_to_display, treshold_low, treshold_high, props,
                       overflow_checks, callVars, loopVars>>

\* changed: the parent handed over other props
Changed ==
    \E decoded \in PropsImages :
        /\ status = "running"
        /\ last_msg' = "Changed"
        /\ decoded # props
        /\ props' = decoded
        /\ image' = new_with_data(decoded)
        /\ image_to_display' = new_with_data(decoded)
        /\ Rendered(new_with_data(decoded))
        /\ UNCHANGED <<treshold_low, treshold_high, black_percent,
                       overflow_checks, callVars, loopVars>>

Next ==
    \/ StretchHistogram
    \/ EqualizeHistogram
    \/ ApplyThreshold
    \/ ApplyMeanIterativeSelectionThreshold
    \/ ApplyPercentBlackSelectionThreshold
    \/ ApplyEntropySelectionThreshold
    \/ ApplyMinimumErrorThreshold
    \/ ApplyFuzzyMinimumErrorThreshold
    \/ TresholdLowChanged
    \/ TresholdHighChanged
    \/ PercentBlackChanged
    \/ Changed

Spec == Init /\ [][Next]_vars

(***************************************************************************)
(* What the properties below are stated with.                              *)
(***************************************************************************)
Pixels(img) == 0..(NumChunks(img.data) - 1)

RGB == {Red, Green, Blue}

\* the sum of the 256 counts of a histogram
Sum(h) ==
    LET Add(v, s) == s + h[v]
    IN  For(Add, 0, Levels - 1, 0)

\* how many pixels of img have the value v in component c
CountValue(img, c, v) == Cardinality({ i \in Pixels(img) : Chunk(img.data, i, c) = v })

\* how many pixels of img have a value of at most v in component c
CountUpTo(img, c, v) == Cardinality({ i \in Pixels(img) : Chunk(img.data, i, c) <= v })

GrayOf(img, i) ==
    Grayscale(Chunk(img.data, i, Red), Chunk(img.data, i, Green), Chunk(img.data, i, Blue))

\* how many pixels of img have a gray level of at most t
GrayUpTo(img, t) == Cardinality({ i \in Pixels(img) : GrayOf(img, i) <= t })

\* every pixel of `out` has R = G = B = v
AllRGB(out, v) == \A i \in Pixels(out) : \A c \in RGB : Chunk(out.data, i, c) = v

\* `out` has the alpha bytes of img
SameAlpha(out, img) ==
    /\ Len(out.data) = Len(img.data)
    /\ \A i \in Pixels(img) : Chunk(out.data, i, Alpha) = Chunk(img.data, i, Alpha)

Selectors ==
    { "percent_black_selection", "mean_iterative_selection", "entropy_selection",
      "minimum_error_selection", "fuzzy_minimum_error_selection" }

Transforms == Selectors \cup { "get_equalized_image", "get_stretched_image", "threshold" }

\* the 2x1 image of the spec's scenario
ExampleImage == MkImage(2, 1, <<10, 10, 10, 255, 200, 200, 200, 255>>)

(***************************************************************************)
(* C1: threshold(img, (low, high)) makes a pixel white (R = G = B = 255)   *)
(* when one of its R, G, B lies in [low, high] and black (0) otherwise,    *)
(* and keeps every alpha byte; so (0, 255) gives an all-white image and    *)
(* low > high an all-black one.                                            *)
(***************************************************************************)
ThresholdSemantics ==
    call.fn = "threshold" =>
        /\ ~ret.panicked
        /\ SameAlpha(ret.value, self)
        /\ \A i \in Pixels(self) :
               LET hit == \E c \in RGB : /\ call.low <= Chunk(self.data, i, c)
                                         /\ Chunk(self.data, i, c) <= call.high
               IN  \A c \in RGB :
                       Chunk(ret.value.data, i, c) = IF hit THEN U8Max ELSE 0
        /\ (call.low = 0 /\ call.high = U8Max) => AllRGB(ret.value, U8Max)
        /\ call.low > call.high => AllRGB(ret.value, 0)

\* a threshold call that leaves one pixel white, though one of its components
\* lies below the range and its alpha is not 255, and another pixel black
ThresholdMixedWitness ==
    /\ call.fn = "threshold"
    /\ call.low <= call.high
    /\ \E i \in Pixels(self), j \in Pixels(self) :
           /\ Chunk(ret.value.data, i, Red) = U8Max
           /\ \E c \in RGB : Chunk(self.data, i, c) < call.low
           /\ Chunk(self.data, i, Alpha) # U8Max
           /\ Chunk(ret.value.data, j, Red) = 0

(***************************************************************************)
(* C2: each of the Red, Green and Blue histograms of get_histogram, and    *)
(* the histogram of get_grayscale_histogram, sums to width * height, also  *)
(* for an image without pixels: every pixel is counted once in each, at    *)
(* its own value, and the alpha byte is never counted.                     *)
(***************************************************************************)
HistogramsCountEveryPixel ==
    /\ call.fn = "get_histogram" =>
           \A c \in RGB :
               /\ Sum(ret.value[c]) = self.width * self.height
               /\ \A v \in 0..(Levels - 1) : ret.value[c][v] = CountValue(self, c, v)
    /\ call.fn = "get_grayscale_histogram" =>
           /\ Sum(ret.value) = self.width * self.height
           /\ \A v \in 0..(Levels - 1) :
                  ret.value[v] = Cardinality({ i \in Pixels(self) : GrayOf(self, i) = v })

\* the histograms of an image of several pixels, one of which has an alpha
\* byte that none of its colour bytes equals
HistogramWitness ==
    /\ call.fn = "get_histogram"
    /\ self.width * self.height >= 2
    /\ \E i \in Pixels(self) :
           \A c \in RGB : Chunk(self.data, i, c) # Chunk(self.data, i, Alpha)
    /\ ret.value[Blue][U8Max] >= 1

(***************************************************************************)
(* C3: each of the five selectors returns threshold(img, (t, 255)) for one *)
(* cutoff t of 0..255, so that every pixel of its output has R = G = B in  *)
(* {0, 255} and the alpha byte of the input.                               *)
(***************************************************************************)
SelectorsReturnThreshold ==
    call.fn \in Selectors =>
        /\ ~ret.panicked
        /\ \E t \in 0..U8Max : ret.value = threshold(self, t, U8Max)
        /\ SameAlpha(ret.value, self)
        /\ \A i \in Pixels(self) :
               /\ Chunk(ret.value.data, i, Red) \in {0, U8Max}
               /\ Chunk(ret.value.data, i, Green) = Chunk(ret.value.data, i, Red)
               /\ Chunk(ret.value.data, i, Blue) = Chunk(ret.value.data, i, Red)

\* fuzzy_minimum_error_selection panicked
FuzzyPanicked ==
    /\ call.fn = "fuzzy_minimum_error_selection"
    /\ ret.panicked

(***************************************************************************)
(* C4: percent_black_selection returns threshold(img, (t, 255)) for the    *)
(* smallest gray level t at which the cumulative count of the grayscale    *)
(* histogram is at least floor(width * height * percent); for the 2x1      *)
(* image (10,10,10,255), (200,200,200,255) and percent 0.5 the cutoff is   *)
(* 10 and both pixels come out white.                                      *)
(***************************************************************************)
PercentBlackCutoffIsSmallest ==
    call.fn = "percent_black_selection" =>
        LET target == (self.width * self.height * call.percent.n) \div call.percent.d
        IN  /\ ~ret.panicked
            /\ \E t \in 0..U8Max :
                   /\ GrayUpTo(self, t) >= target
                   /\ \A u \in 0..(t - 1) : GrayUpTo(self, u) < target
                   /\ ret.value = threshold(self, t, U8Max)
            /\ (self = ExampleImage /\ call.percent = Fin(1, 2)) =>
                   /\ PercentBlackCutoff(get_grayscale_histogram(self), target) = 10
                   /\ ret.value = threshold(self, 10, U8Max)
                   /\ AllRGB(ret.value, U8Max)

\* the scenario: the 2x1 image, percent 0.5, both pixels white
PercentBlackExampleWitness ==
    /\ call.fn = "percent_black_selection"
    /\ self = ExampleImage
    /\ call.percent = Fin(1, 2)
    /\ ret.value.data = <<255, 255, 255, 255, 255, 255, 255, 255>>

(***************************************************************************)
(* C5: every transform (get_equalized_image, get_stretched_image,          *)
(* threshold, the five selectors) returns a new image of the width and     *)
(* height of its input, with width * height * 4 bytes.                     *)
(***************************************************************************)
TransformsReturnImage ==
    call.fn \in Transforms =>
        /\ ~ret.panicked
        /\ ret.value.width = self.width
        /\ ret.value.height = self.height
        /\ Len(ret.value.data) = self.width * self.height * 4

\* a transform of an image without pixels returned no image
TransformPanicked ==
    /\ call.fn \in Transforms
    /\ self.width * self.height = 0
    /\ ret.panicked

(***************************************************************************)
(* C6: get_stretched_image of an image in which a component has one value  *)
(* in every pixel (min = max) does not panic, under either build: it       *)
(* returns an image of the same size in which that component is 0 in       *)
(* every pixel (0/0 is NaN, and NaN as u8 is 0).                           *)
(***************************************************************************)
StretchConstantChannel ==
    call.fn = "get_stretched_image" =>
        \A c \in RGB :
            (\A i \in Pixels(self), j \in Pixels(self) :
                 Chunk(self.data, i, c) = Chunk(self.data, j, c))
            => /\ ~ret.panicked
               /\ ret.value.width = self.width
               /\ ret.value.height = self.height
               /\ SameAlpha(ret.value, self)
               /\ \A i \in Pixels(self) : Chunk(ret.value.data, i, c) = 0

\* a stretch of several pixels in which Green is constant and Red is not
StretchConstantWitness ==
    /\ call.fn = "get_stretched_image"
    /\ ~ret.panicked
    /\ \E i \in Pixels(self), j \in Pixels(self) :
           /\ Chunk(self.data, i, Red) # Chunk(self.data, j, Red)
           /\ Chunk(ret.value.data, i, Red) = U8Max
    /\ \A i \in Pixels(self), j \in Pixels(self) :
           Chunk(self.data, i, Green) = Chunk(self.data, j, Green)

(***************************************************************************)
(* C7: in ImageComponent `image` is always the image decoded from the      *)
(* current props, and after a transform message image_to_display is that   *)
(* transform of `image`, whatever was on display before: transforms are    *)
(* never composed.                                                         *)
(***************************************************************************)
ComponentTransformsImage ==
    LET Shows(outcome) == outcome.panicked \/ image_to_display = outcome.value
    IN  /\ image = new_with_data(props)
        /\ last_msg = "StretchHistogram" =>
               Shows(get_stretched_image(image, overflow_checks))
        /\ last_msg = "EqualizeHistogram" =>
               Shows(get_equalized_image(image, overflow_checks))
        /\ last_msg = "ApplyThreshold" =>
               Shows(Returned(threshold(image, treshold_low, treshold_high)))
        /\ last_msg = "ApplyMeanIterativeSelectionThreshold" =>
               Shows(Returned(mean_iterative_selection(image)))
        /\ last_msg = "ApplyPercentBlackSelectionThreshold" =>
               Shows(Returned(percent_black_selection(image, black_percent)))
        /\ last_msg = "ApplyEntropySelectionThreshold" =>
               Shows(Returned(entropy_selection(image)))
        /\ last_msg = "ApplyMinimumErrorThreshold" =>
               Shows(Returned(minimum_error_selection(image)))
        /\ last_msg = "ApplyFuzzyMinimumErrorThreshold" =>
               Shows(fuzzy_minimum_error_selection(image, overflow_checks))

\* ApplyThreshold has put on display an image that differs from `image`, and
\* that the same threshold would change again
ComponentThresholdWitness ==
    /\ last_msg = "ApplyThreshold"
    /\ status = "running"
    /\ image_to_display # image
    /\ threshold(image_to_display, treshold_low, treshold_high) # image_to_display

(***************************************************************************)
(* C8: for an image with a pixel the while loop of                         *)
(* mean_iterative_selection is left after finitely many passes, with       *)
(* (mean - prev_mean).abs() > 0.01 false, and the function returns         *)
(* threshold(img, (mean as u8, 255)); also when one of the two groups of   *)
(* levels is empty.                                                        *)
(***************************************************************************)
MeanIterativeTerminates ==
    (pc = "start" /\ NumChunks(self.data) > 0)
        ~> (/\ pc = "done"
            /\ ~MeanLoopCondition(mean, prev_mean)
            /\ ret = Returned(threshold(self, FAsU8(mean), U8Max)))

\* the call returned for an image with pixels after a pass in which a group
\* was empty: its mean is 0/0, so `mean` is NaN
MeanEmptyGroupWitness ==
    /\ pc = "done"
    /\ NumChunks(self.data) > 0
    /\ IsNaN(mean)
    /\ ~IsNaN(prev_mean)

(***************************************************************************)
(* C9: in get_equalized_image the tracked minimum of each of R, G, B is    *)
(* cdf[0], the number of pixels whose value is 0, and each output byte is  *)
(* round((cdf[old] - minCdf) / (width * height - minCdf) * 255), 0 when    *)
(* the quotient is 0/0; cdf[old] - minCdf never underflows.                *)
(***************************************************************************)
EqualizeUsesCdfAtZero ==
    call.fn = "get_equalized_image" =>
        /\ ~ret.panicked
        /\ SameAlpha(ret.value, self)
        /\ \A c \in RGB :
               LET minCdf == CountValue(self, c, 0)
                   rest == self.width * self.height - minCdf
               IN  /\ EqualizeCdf(get_histogram(self)[c]).min = [top |-> FALSE, v |-> minCdf]
                   /\ \A i \in Pixels(self) :
                          LET up == CountUpTo(self, c, Chunk(self.data, i, c)) - minCdf
                          IN  /\ up >= 0
                              /\ Chunk(ret.value.data, i, c) =
                                     IF rest = 0 THEN 0
                                     ELSE (2 * U8Max * up + rest) \div (2 * rest)

\* an equalisation in which a component is 0 in no pixel, and the output
\* byte of one pixel is neither 0 nor 255
EqualizeWitness ==
    /\ call.fn = "get_equalized_image"
    /\ ~ret.panicked
    /\ \E c \in RGB :
           /\ CountValue(self, c, 0) = 0
           /\ \E i \in Pixels(self) :
                  /\ Chunk(ret.value.data, i, c) > 0
                  /\ Chunk(ret.value.data, i, c) < U8Max

\* J as the claim writes it, at candidate i
ClaimedObjective(img, i) ==
    LET histogram == get_grayscale_histogram(img)
        n == img.width * img.height
        levels == LevelsOf(histogram)
        Count(j) == histogram[j]
        Weight(j) == j * histogram[j]
        p1 == SumOver(Count, LevelsIn(levels, 0, i))
        p2 == SumOver(Count, LevelsIn(levels, i + 1, Levels - 1))
        s1 == ClassVariance(histogram, levels, 0, i, p1,
                            SumOver(Weight, LevelsIn(levels, 0, i)))
        s2 == ClassVariance(histogram, levels, i + 1, Levels - 1, p2,
                            SumOver(Weight, LevelsIn(levels, i + 1, Levels - 1)))
    IN  FxAdd(FxInt(1),
              FxScale(FxAdd(FxSub(FxMul(FxRatio(p1, n), Log2(s1.n, s1.d)),
                                  FxMul(FxRatio(p1, n), LogRatio(p1, n))),
                            FxMul(FxRatio(p2, n),
                                  FxSub(Log2(s2.n, s2.d), LogRatio(p2, n)))),
                      2))

(***************************************************************************)
(* C10: at every candidate level i minimum_error_selection compares        *)
(* J = 1 + 2 * (p1*log2(s1) - p1*log2(p1) + p2*(log2(s2) - log2(p2))),     *)
(* with p1, p2 the probabilities of the levels 0..=i and i+1..255 and s1,  *)
(* s2 the variances of the two classes (0 for an empty class), and the     *)
(* cutoff minimises J among the candidates whose J is neither NaN nor      *)
(* -infinity.                                                              *)
(***************************************************************************)
MinimumErrorComparesClaimedObjective ==
    call.fn = "minimum_error_selection" =>
        LET end == MinimumErrorLoop(get_grayscale_histogram(self),
                                    self.width * self.height)
            Kept(j) == j.k # "nan" /\ j # FxNegInf
        IN  /\ \A i \in 0..(Levels - 1) : end.js[i + 1] = ClaimedObjective(self, i)
            /\ ret = Returned(threshold(self, end.threshold, U8Max))
            /\ \A i \in 0..(Levels - 1) :
                   Kept(end.js[i + 1]) =>
                       /\ Kept(end.js[end.threshold + 1])
                       /\ ~FxLt(end.js[i + 1], end.js[end.threshold + 1])

\* a call whose least objective is finite and is not the J of the claim at
\* the cutoff
MinimumErrorObjectiveDiffers ==
    /\ call.fn = "minimum_error_selection"
    /\ LET end == MinimumErrorLoop(get_grayscale_histogram(self),
                                   self.width * self.height)
       IN  /\ end.min_value.k = "fin"
           /\ end.min_value = end.js[end.threshold + 1]
           /\ end.min_value # ClaimedObjective(self, end.threshold)

\* how many pixels of img have the gray level v
GrayCount(img, v) == Cardinality({ p \in Pixels(img) : GrayOf(img, p) = v })

\* the largest number of pixels a gray level of lo..hi has in img; 0 when the
\* range holds no level
MaxGrayCount(img, lo, hi) ==
    LET counts == {0} \cup { GrayCount(img, GrayOf(img, p)) :
                               p \in { q \in Pixels(img) : /\ GrayOf(img, q) >= lo
                                                           /\ GrayOf(img, q) <= hi } }
    IN  CHOOSE m \in counts : \A c \in counts : c <= m

(***************************************************************************)
(* C11, as the code has it: at every candidate i of entropy_selection      *)
(* max_low is the largest of p[0..=i]; max_high is the largest of          *)
(* p[i+1..=255] for i < 255, and p[255], the candidate's own level, for    *)
(* i = 255 (p[v] is the count of level v over width * height).             *)
(***************************************************************************)
EntropyMaxima ==
    call.fn = "entropy_selection" =>
        LET end == EntropyLoop(get_grayscale_histogram(self), self.width * self.height)
        IN  /\ Len(end.maxes) = Levels
            /\ \A i \in 0..(Levels - 1) :
                   /\ end.maxes[i + 1].max_low = MaxGrayCount(self, 0, i)
                   /\ end.maxes[i + 1].max_high =
                          IF i < Levels - 1
                          THEN MaxGrayCount(self, i + 1, Levels - 1)
                          ELSE GrayCount(self, Levels - 1)

\* an entropy_selection of an image with a pixel of gray level 255 and a
\* lower level that two pixels share: max_high is 2 at candidate 0 and is
\* the count of level 255 at candidate 255
EntropyMaximaWitness ==
    /\ call.fn = "entropy_selection"
    /\ GrayCount(self, Levels - 1) = 1
    /\ LET end == EntropyLoop(get_grayscale_histogram(self), self.width * self.height)
       IN  /\ end.maxes[1].max_high = 2
           /\ end.maxes[Levels].max_high = 1
           /\ end.maxes[Levels].max_low = 2

(***************************************************************************)
(* C11, as the claim has it: at every candidate i from 0 to 255 max_low is *)
(* the largest of p[0..=i] and max_high is the largest of the p[j] with    *)
(* j strictly above i (of no level at all when i = 255).                   *)
(***************************************************************************)
EntropyMaxHighStrictlyAbove ==
    call.fn = "entropy_selection" =>
        LET end == EntropyLoop(get_grayscale_histogram(self), self.width * self.height)
        IN  \A i \in 0..(Levels - 1) :
                /\ end.maxes[i + 1].max_low = MaxGrayCount(self, 0, i)
                /\ end.maxes[i + 1].max_high = MaxGrayCount(self, i + 1, Levels - 1)

(***************************************************************************)
(* C12: in ImageComponent treshold_low <= treshold_high holds after create *)
(* (0, 255) and after every message, whatever numbers the two threshold    *)
(* inputs deliver and whatever other messages come in between; so the pair *)
(* that ApplyThreshold passes to threshold never has low > high.           *)
(***************************************************************************)
TresholdsStayOrdered ==
    /\ treshold_low <= treshold_high
    /\ [][/\ treshold_low' <= treshold_high'
          /\ ApplyThreshold => treshold_low <= treshold_high]_vars

\* TresholdHighChanged has acted after TresholdLowChanged had moved
\* treshold_low off 0, and the two thresholds meet
TresholdsMeetWitness ==
    /\ last_msg = "TresholdHighChanged"
    /\ treshold_low = 50
    /\ treshold_high = 50

====
